---- MODULE Spec2Model ----
(***************************************************************************)
(* Ingestion-and-retrieval pipeline of the Node enterprise AI template:    *)
(* upload reservation and confirmation (upload.service.ts), the BullMQ     *)
(* ingestion job (jobs/ingestion.worker.ts), the abandoned-file sweep      *)
(* (jobs/fileCleanup worker), the chat retrieval (agent.service.ts) and    *)
(* the notifications sent over sockets (notification.service.ts,           *)
(* socket.service.ts).                                                     *)
(* Every await of the source is one step of the model.                     *)
(***************************************************************************)
EXTENDS Integers, Sequences, FiniteSets, Bags, TLC

\* ------------------------------------------------------------------ bounds
MaxFiles == 2      \* File rows ever reserved
MaxCopies == 3     \* File rows ever reserved in the deduplication scenario
MaxConfirms == 2   \* confirmUpload calls ever made
MaxFaults == 1     \* remote calls (object store, model provider) that fail
NumWorkers == 2    \* server instances, each running one ingestion Worker
MaxChats == 1      \* chat requests ever received
MaxNotifications == 2   \* Notification rows ever created
MaxSockets == 2    \* socket connections open or being handled at a time

\* ------------------------------------------------------- program constants
Attempts == 3      \* defaultJobOptions.attempts
Limit == 5         \* LIMIT 5 of the similarity query
MaxFileSize == 2097152   \* maxFileSize = 2 * 1024 * 1024

\* ------------------------------------------------------------------ inputs
Users == {"u1", "u2"}

\* Role of each account (the User table is seeded, user CRUD is not modelled).
RoleOf(u) == CASE u = "u2" -> "ADMIN" [] u = "u3" -> "CONTRIBUTOR" [] OTHER -> "USER"

\* Byte contents a client may PUT to its presigned URL.
\* "a": text of two chunks, "b": text of three chunks, "e": whitespace only.
Contents == {"a", "b", "e"}

AllowedFileTypes ==
    {"image/jpeg", "image/png", "image/gif", "image/webp", "application/pdf",
     "text/plain", "text/markdown", "text/csv"}

\* sha256 of the bytes: injective on the modelled contents.
Sha256(c) == <<"sha256", c>>

\* text.trim() is empty
TrimIsEmpty(c) == c = "e"

\* splitter.createDocuments([text]).length
NumChunks(c) == CASE c = "a" -> 2 [] c = "b" -> 3 [] OTHER -> 0

\* embed(): the vector of a chunk text or of a query text, a point on a line.
EmbedChunk(c, i) == i
EmbedQuery(q) == CASE q = "q1" -> 1 [] q = "q3" -> 3 [] OTHER -> 2

\* pgvector's <=> : distance between two vectors
Abs(x) == IF x < 0 THEN -x ELSE x
Distance(v, w) == Abs(v - w)

\* --------------------------------------------------------------- the state
VARIABLES
    files,      \* File table: id -> row
    nextId,     \* number of File rows ever created (ids are 1..nextId)
    aged,       \* File rows 1..aged were created more than 24 hours ago
    store,      \* object store: fileKey -> bytes (the key of File f is f)
    puts,       \* history: the bytes each client has PUT, kept after deletion
    docs,       \* Document table: a bag of chunk rows
    jobs,       \* ingestion queue: every job ever added, with its execution
    faults,     \* remote calls that have failed so far
    reserve,    \* the last generateSignedUrl call and its response
    confirm,    \* the last confirmUpload call and its response
    sweep,      \* the running processFileCleanupJob, if any
    chat,       \* the running agentService.chat call, if any
    nChats,     \* chat requests received so far
    notifications,  \* Notification table: id -> row (ids are 1..Len)
    sockets,    \* socket.io connections with their connection handler
    notify,     \* the running createNotificationsForUserIds call, if any
    emitted     \* history: notifications that reached a connected client

notifVars == <<notifications, sockets, notify, emitted>>

pipelineVars == <<files, nextId, aged, store, puts, docs, jobs, faults, reserve, confirm, sweep, chat, nChats>>

vars == <<files, nextId, aged, store, puts, docs, jobs, faults, reserve, confirm, sweep, chat, nChats,
          notifications, sockets, notify, emitted>>

Sockets == 1..MaxSockets

FileIds == 1..MaxFiles

JobIds == DOMAIN jobs

Exists(f) == f \in DOMAIN files

IdleSweep == [pc |-> "idle", todo |-> <<>>, deletedCount |-> 0, cleanedCount |-> -1]

IdleChat == [pc |-> "idle", user |-> "", messages |-> <<>>, searchQuery |-> "",
             embedding |-> 0, documents |-> <<>>, links |-> <<>>, calls |-> {},
             outcome |-> ""]

IdleNotify == [pc |-> "idle", data |-> <<>>, first |-> 0]

ClosedSocket == [user |-> "", connected |-> FALSE, pc |-> "done", undelivered |-> {}, since |-> 0]

NoReservation == [user |-> "", fileType |-> "", fileSize |-> 0, isPublic |-> FALSE,
                  status |-> 0, fileId |-> 0, signedUrl |-> <<>>]

Init ==
    /\ files = <<>>
    /\ nextId = 0
    /\ aged = 0
    /\ store = <<>>
    /\ puts = <<>>
    /\ docs = EmptyBag
    /\ jobs = <<>>
    /\ faults = 0
    /\ reserve = NoReservation
    /\ confirm = [n |-> 0, user |-> "", fileId |-> 0, status |-> 0]
    /\ sweep = IdleSweep
    /\ chat = IdleChat
    /\ nChats = 0
    /\ notifications = <<>>
    /\ sockets = [s \in Sockets |-> ClosedSocket]
    /\ notify = IdleNotify
    /\ emitted = {}

\* ------------------------------------------------------------ table helpers
\* prisma.file.update({ where: { id }, data })
UpdateFile(f, field, value) == [files EXCEPT ![f][field] = value]

\* prisma.file.delete: the row and, by ON DELETE CASCADE, its Document rows
RemoveKey(fn, k) == [x \in DOMAIN fn \ {k} |-> fn[x]]
DocsWithoutFile(f) == [d \in {r \in DOMAIN docs : r.fileId # f} |-> docs[d]]

\* a remote call may fail while the fault budget lasts
MayFail == faults < MaxFaults

\* ---------------------------------------------------------- upload service
\* createUploadService.generateSignedUrl
\* mutant: finalIsPublic is the requested flag whatever the role
Reserved_AnyRole(u, fileType, isPublic) ==
    [userId |-> u, mimeType |-> fileType, status |-> "PENDING", fileHash |-> <<>>,
     isPublic |-> isPublic]

Reserved(u, fileType, isPublic) ==
    [userId |-> u, mimeType |-> fileType, status |-> "PENDING", fileHash |-> <<>>,
     isPublic |-> (isPublic /\ RoleOf(u) \in {"ADMIN", "CONTRIBUTOR"})]

\* mutant: the MIME type is not tested
ReservationStatus_AnyType(fileType, fileSize) == IF fileSize > MaxFileSize THEN 400 ELSE 200

\* the two ApiError(400) tests; res.send answers 200
ReservationStatus(fileType, fileSize) ==
    IF fileType \notin AllowedFileTypes THEN 400
    ELSE IF fileSize > MaxFileSize THEN 400
    ELSE 200

\* PutObjectCommand presigned for the key of the new row
SignedUrl(f) == <<"put", f>>

GenerateSignedUrl(u, fileType, fileSize, isPublic) ==
    /\ IF ReservationStatus(fileType, fileSize) = 200
       THEN /\ nextId' = nextId + 1
            /\ files' = (nextId + 1 :> Reserved(u, fileType, isPublic)) @@ files
            /\ reserve' = [user |-> u, fileType |-> fileType, fileSize |-> fileSize,
                           isPublic |-> isPublic, status |-> 200,
                           fileId |-> nextId + 1, signedUrl |-> SignedUrl(nextId + 1)]
       ELSE /\ reserve' = [user |-> u, fileType |-> fileType, fileSize |-> fileSize,
                           isPublic |-> isPublic, status |-> 400,
                           fileId |-> 0, signedUrl |-> <<>>]
            /\ UNCHANGED <<files, nextId>>
    /\ UNCHANGED <<aged, store, puts, docs, jobs, faults, confirm, sweep, chat, nChats, notifVars>>

\* the client PUTs the bytes to the presigned URL it was given
PutObject(f, c) ==
    /\ f \in 1..nextId
    /\ f \notin DOMAIN store
    /\ ~ \E j \in JobIds : jobs[j].fileId = f
    /\ store' = (f :> c) @@ store
    /\ puts' = (f :> c) @@ puts
    /\ UNCHANGED <<files, nextId, aged, docs, jobs, faults, confirm, sweep, chat, nChats, reserve, notifVars>>

\* 24 hours pass for the oldest File row that is not yet a day old
Tick ==
    /\ aged < nextId
    /\ aged' = aged + 1
    /\ UNCHANGED <<files, nextId, store, puts, docs, jobs, faults, confirm, sweep, chat, nChats, reserve, notifVars>>

\* createIngestionService.addIngestionJob: queue.add('ingest', data)
NewJob(f) ==
    \* pred is history: the jobs that had completed when this one was last delivered
    [name |-> "ingest", fileId |-> f, state |-> "waiting", attemptsMade |-> 0,
     pc |-> "", result |-> "", userId |-> "", mimeType |-> "", bytes |-> "",
     hash |-> <<>>, i |-> 0, pred |-> {}, error |-> "", thrown |-> ""]

\* mutant: the ownership test is missing
ConfirmStatus_NoOwnerCheck(u, f) == IF ~ Exists(f) THEN 404 ELSE 201

\* createUploadService.confirmUpload
ConfirmStatus(u, f) ==
    IF ~ Exists(f) THEN 404
    ELSE IF files[f].userId # u THEN 403
    ELSE 201

ConfirmUpload(u, f) ==
    /\ confirm' = [n |-> confirm.n + 1, user |-> u, fileId |-> f,
                   status |-> ConfirmStatus(u, f)]
    /\ jobs' = IF ConfirmStatus(u, f) = 201 THEN Append(jobs, NewJob(f)) ELSE jobs
    /\ UNCHANGED <<files, nextId, aged, store, puts, docs, faults, sweep, chat, nChats, reserve, notifVars>>

\* ------------------------------------------------------------ job queue
Active == {j \in JobIds : jobs[j].state = "active"}

\* a Worker takes a waiting job (first delivery or a retry after backoff)
Deliver(j) ==
    /\ j \in JobIds
    /\ jobs[j].state = "waiting"
    /\ Cardinality(Active) < NumWorkers
    /\ jobs' = [jobs EXCEPT ![j].state = "active",
                            ![j].attemptsMade = @ + 1,
                            ![j].pc = "findUnique",
                            ![j].result = "",
                            ![j].thrown = "",
                            ![j].pred = {k \in JobIds : jobs[k].state = "completed"}]
    /\ UNCHANGED <<files, nextId, aged, store, puts, docs, faults, confirm, sweep, chat, nChats, reserve, notifVars>>

At(j, pc) == j \in JobIds /\ jobs[j].state = "active" /\ jobs[j].pc = pc

Goto(j, pc) == [jobs EXCEPT ![j].pc = pc]

\* a step throws inside the try block: control goes to catch (error)
Raise(j, e) == [jobs EXCEPT ![j].pc = "catch", ![j].error = e]

\* processJob returns: the queue marks the job completed
Finish(j, state, result) ==
    [jobs EXCEPT ![j] = [NewJob(@.fileId) EXCEPT !.state = state, !.result = result,
                                                 !.attemptsMade = jobs[j].attemptsMade,
                                                 !.pred = jobs[j].pred]]

Return(j) == Finish(j, "completed", "ok")

\* processJob throws: the queue retries while attempts remain
AfterThrow(job) == IF job.attemptsMade < Attempts THEN "waiting" ELSE "failed"

\* mutant: an error of the FAILED update replaces the caught one
Rethrown_UpdateError(job) == IF Exists(job.fileId) THEN job.error ELSE "P2025"

\* catch (error) { ...update(FAILED).catch(log); throw error }
Rethrown(job) == job.error

Throw(j) == [Finish(j, AfterThrow(jobs[j]), "error") EXCEPT ![j].thrown = Rethrown(jobs[j])]

\* --------------------------------------------------- processJob, per await
\* 0. prisma.file.findUnique; a missing row throws inside the try block
FindUnique(j) ==
    /\ At(j, "findUnique")
    /\ jobs' = IF Exists(jobs[j].fileId)
               THEN [jobs EXCEPT ![j].pc = "setProcessing",
                                 ![j].userId = files[jobs[j].fileId].userId,
                                 ![j].mimeType = files[jobs[j].fileId].mimeType]
               ELSE Raise(j, "File record not found")
    /\ UNCHANGED <<files, nextId, aged, store, puts, docs, faults, confirm, sweep, chat, nChats, reserve, notifVars>>

\* prisma.file.update status PROCESSING (throws when the row is gone)
SetProcessing(j) ==
    /\ At(j, "setProcessing")
    /\ IF Exists(jobs[j].fileId)
       THEN /\ files' = UpdateFile(jobs[j].fileId, "status", "PROCESSING")
            /\ jobs' = Goto(j, "download")
       ELSE /\ jobs' = Raise(j, "P2025")
            /\ UNCHANGED files
    /\ UNCHANGED <<nextId, aged, store, puts, docs, faults, confirm, sweep, chat, nChats, reserve, notifVars>>

\* 1. s3Client.send(GetObjectCommand)
Download(j) ==
    /\ At(j, "download")
    /\ jobs' = IF jobs[j].fileId \in DOMAIN store
               THEN [jobs EXCEPT ![j].pc = "findFirst",
                                 ![j].bytes = store[jobs[j].fileId],
                                 ![j].hash = Sha256(store[jobs[j].fileId])]
               ELSE Goto(j, "deleteReservation")
    /\ UNCHANGED <<files, nextId, aged, store, puts, docs, faults, confirm, sweep, chat, nChats, reserve, notifVars>>

\* the GET fails with an error other than NoSuchKey / 404
DownloadFails(j) ==
    /\ At(j, "download")
    /\ MayFail
    /\ faults' = faults + 1
    /\ jobs' = Raise(j, "S3")
    /\ UNCHANGED <<files, nextId, aged, store, puts, docs, confirm, sweep, chat, nChats, reserve, notifVars>>

\* NoSuchKey: prisma.file.delete, then return
DeleteReservation(j) ==
    /\ At(j, "deleteReservation")
    /\ IF Exists(jobs[j].fileId)
       THEN /\ files' = RemoveKey(files, jobs[j].fileId)
            /\ docs' = DocsWithoutFile(jobs[j].fileId)
            /\ jobs' = Return(j)
       ELSE /\ jobs' = Raise(j, "P2025")
            /\ UNCHANGED <<files, docs>>
    /\ UNCHANGED <<nextId, aged, store, puts, faults, confirm, sweep, chat, nChats, reserve, notifVars>>

\* 2. prisma.file.findFirst({ userId, fileHash, status: 'COMPLETED', id: { not: fileId } })
\* mutant: id: fileId instead of id: { not: fileId }
IsDuplicateOf_SameId(g, job) ==
    /\ files[g].userId = job.userId
    /\ files[g].fileHash = job.hash
    /\ files[g].status = "COMPLETED"
    /\ g = job.fileId

\* mutant: the userId condition is missing
IsDuplicateOf_AnyOwner(g, job) ==
    /\ files[g].fileHash = job.hash
    /\ files[g].status = "COMPLETED"
    /\ g # job.fileId

\* mutant: the status: 'COMPLETED' condition is missing
IsDuplicateOf_AnyStatus(g, job) ==
    /\ files[g].userId = job.userId
    /\ files[g].fileHash = job.hash
    /\ g # job.fileId

IsDuplicateOf(g, job) ==
    /\ files[g].userId = job.userId
    /\ files[g].fileHash = job.hash
    /\ files[g].status = "COMPLETED"
    /\ g # job.fileId

FindFirst(j) ==
    /\ At(j, "findFirst")
    /\ jobs' = IF \E g \in DOMAIN files : IsDuplicateOf(g, jobs[j])
               THEN Goto(j, "deleteObject")
               ELSE Goto(j, "updateHash")
    /\ UNCHANGED <<files, nextId, aged, store, puts, docs, faults, confirm, sweep, chat, nChats, reserve, notifVars>>

\* duplicate: s3Client.send(DeleteObjectCommand)
DeleteObject(j) ==
    /\ At(j, "deleteObject")
    /\ store' = RemoveKey(store, jobs[j].fileId)
    /\ jobs' = Goto(j, "markDuplicate")
    /\ UNCHANGED <<files, nextId, aged, puts, docs, faults, confirm, sweep, chat, nChats, reserve, notifVars>>

DeleteObjectFails(j) ==
    /\ At(j, "deleteObject")
    /\ MayFail
    /\ faults' = faults + 1
    /\ jobs' = Raise(j, "S3")
    /\ UNCHANGED <<files, nextId, aged, store, puts, docs, confirm, sweep, chat, nChats, reserve, notifVars>>

\* duplicate: prisma.file.update status DUPLICATE with the hash, then return
MarkDuplicate(j) ==
    /\ At(j, "markDuplicate")
    /\ IF Exists(jobs[j].fileId)
       THEN /\ files' = [files EXCEPT ![jobs[j].fileId].status = "DUPLICATE",
                                      ![jobs[j].fileId].fileHash = jobs[j].hash]
            /\ jobs' = Return(j)
       ELSE /\ jobs' = Raise(j, "P2025")
            /\ UNCHANGED files
    /\ UNCHANGED <<nextId, aged, store, puts, docs, faults, confirm, sweep, chat, nChats, reserve, notifVars>>

\* prisma.file.update fileHash on the current file
UpdateHash(j) ==
    /\ At(j, "updateHash")
    /\ IF Exists(jobs[j].fileId)
       THEN /\ files' = UpdateFile(jobs[j].fileId, "fileHash", jobs[j].hash)
            /\ jobs' = Goto(j, "extract")
       ELSE /\ jobs' = Raise(j, "P2025")
            /\ UNCHANGED files
    /\ UNCHANGED <<nextId, aged, store, puts, docs, faults, confirm, sweep, chat, nChats, reserve, notifVars>>

\* 3. parse text; 4. chunk text.  Empty text goes to the FAILED update.
Extract(j) ==
    /\ At(j, "extract")
    /\ jobs' = IF TrimIsEmpty(jobs[j].bytes)
               THEN Goto(j, "markEmpty")
               ELSE [jobs EXCEPT ![j].pc = "embed", ![j].i = 1]
    /\ UNCHANGED <<files, nextId, aged, store, puts, docs, faults, confirm, sweep, chat, nChats, reserve, notifVars>>

\* PDF parsing and image analysis (generateText) may throw; plain text is decoded locally
ExtractFails(j) ==
    /\ At(j, "extract")
    /\ jobs[j].mimeType # "text/plain"
    /\ MayFail
    /\ faults' = faults + 1
    /\ jobs' = Raise(j, "Extract")
    /\ UNCHANGED <<files, nextId, aged, store, puts, docs, confirm, sweep, chat, nChats, reserve, notifVars>>

\* no text: prisma.file.update status FAILED, then return
MarkEmpty(j) ==
    /\ At(j, "markEmpty")
    /\ IF Exists(jobs[j].fileId)
       THEN /\ files' = UpdateFile(jobs[j].fileId, "status", "FAILED")
            /\ jobs' = Return(j)
       ELSE /\ jobs' = Raise(j, "P2025")
            /\ UNCHANGED files
    /\ UNCHANGED <<nextId, aged, store, puts, docs, faults, confirm, sweep, chat, nChats, reserve, notifVars>>

\* 5./6. one turn of the loop: embed the chunk, INSERT INTO "Document"
\* originalName of File f: the fileName its reservation was made with
\* (stored by prisma.file.create, never updated, read by findUnique)
OriginalName(f) == <<"name", f>>

ChunkRow(job) ==
    [fileId |-> job.fileId, userId |-> job.userId, content |-> <<job.bytes, job.i>>,
     embedding |-> EmbedChunk(job.bytes, job.i),
     metadata |-> [originalName |-> OriginalName(job.fileId)]]

\* mutant: the loop stops before the last chunk
AfterChunk_SkipLast(job) == IF job.i + 1 < NumChunks(job.bytes) THEN "embed" ELSE "markCompleted"

AfterChunk(job) == IF job.i < NumChunks(job.bytes) THEN "embed" ELSE "markCompleted"

EmbedAndInsert(j) ==
    /\ At(j, "embed")
    /\ IF Exists(jobs[j].fileId)
       THEN /\ docs' = docs (+) SetToBag({ChunkRow(jobs[j])})
            /\ jobs' = [jobs EXCEPT ![j].pc = AfterChunk(jobs[j]), ![j].i = @ + 1]
       ELSE \* foreign key violation: the File row is gone
            /\ jobs' = Raise(j, "P2003")
            /\ UNCHANGED docs
    /\ UNCHANGED <<files, nextId, aged, store, puts, faults, confirm, sweep, chat, nChats, reserve, notifVars>>

\* mutant: a failed embed call is replaced by a zero vector and the row is written
EmbedFails_ZeroVector(j) ==
    /\ At(j, "embed")
    /\ MayFail
    /\ faults' = faults + 1
    /\ docs' = docs (+) SetToBag({[ChunkRow(jobs[j]) EXCEPT !.embedding = 0]})
    /\ jobs' = [jobs EXCEPT ![j].pc = AfterChunk(jobs[j]), ![j].i = @ + 1]
    /\ UNCHANGED <<files, nextId, aged, store, puts, confirm, sweep, chat, nChats, reserve, notifVars>>

EmbedFails(j) ==
    /\ At(j, "embed")
    /\ MayFail
    /\ faults' = faults + 1
    /\ jobs' = Raise(j, "Embed")
    /\ UNCHANGED <<files, nextId, aged, store, puts, docs, confirm, sweep, chat, nChats, reserve, notifVars>>

\* 7. prisma.file.update status COMPLETED, then return
MarkCompleted(j) ==
    /\ At(j, "markCompleted")
    /\ IF Exists(jobs[j].fileId)
       THEN /\ files' = UpdateFile(jobs[j].fileId, "status", "COMPLETED")
            /\ jobs' = Return(j)
       ELSE /\ jobs' = Raise(j, "P2025")
            /\ UNCHANGED files
    /\ UNCHANGED <<nextId, aged, store, puts, docs, faults, confirm, sweep, chat, nChats, reserve, notifVars>>

\* catch: update status FAILED (its own error is swallowed), rethrow
Catch(j) ==
    /\ At(j, "catch")
    /\ files' = IF Exists(jobs[j].fileId)
                THEN UpdateFile(jobs[j].fileId, "status", "FAILED")
                ELSE files
    /\ jobs' = Throw(j)
    /\ UNCHANGED <<nextId, aged, store, puts, docs, faults, confirm, sweep, chat, nChats, reserve, notifVars>>

\* prisma.file.findUnique rejects (the database call returns an error)
FindUniqueFails(j) ==
    /\ At(j, "findUnique")
    /\ jobs' = Raise(j, "DB")
    /\ UNCHANGED <<files, nextId, aged, store, puts, docs, faults, confirm, sweep, chat, nChats, reserve, notifVars>>

\* the FAILED update itself throws on an existing row (the database call
\* returns an error): .catch logs it, the status is left as it was, rethrow
CatchUpdateFails(j) ==
    /\ At(j, "catch")
    /\ Exists(jobs[j].fileId)
    /\ jobs' = Throw(j)
    /\ UNCHANGED <<files, nextId, aged, store, puts, docs, faults, confirm, sweep, chat, nChats, reserve, notifVars>>

\* the steps of a run whose remote calls all succeed on a non-empty text
ProcessJobReliable(j) ==
    \/ FindUnique(j) \/ SetProcessing(j) \/ Download(j) \/ DeleteReservation(j)
    \/ FindFirst(j) \/ DeleteObject(j) \/ MarkDuplicate(j)
    \/ UpdateHash(j) \/ Extract(j) \/ EmbedAndInsert(j) \/ MarkCompleted(j)

\* a run on plain text, which is decoded locally: the extraction cannot throw
ProcessJobText(j) ==
    \/ ProcessJobReliable(j)
    \/ DownloadFails(j) \/ DeleteObjectFails(j) \/ EmbedFails(j)
    \/ MarkEmpty(j) \/ Catch(j)

ProcessJob(j) == ProcessJobText(j) \/ ExtractFails(j)

\* ------------------------------------------- processFileCleanupJob, per await
\* 1. prisma.file.findMany: PENDING or FAILED rows created more than 24 hours ago
Abandoned == {f \in DOMAIN files : files[f].status \in {"PENDING", "FAILED"} /\ f <= aged}

RECURSIVE Ascending(_)
Ascending(S) ==
    IF S = {} THEN <<>>
    ELSE LET m == CHOOSE x \in S : \A y \in S : x <= y
         IN  <<m>> \o Ascending(S \ {m})

SweepFindMany ==
    /\ sweep.pc = "idle"
    /\ sweep' = IF Abandoned = {}
                THEN [IdleSweep EXCEPT !.cleanedCount = 0]
                ELSE [pc |-> "deleteObject", todo |-> Ascending(Abandoned),
                      deletedCount |-> 0, cleanedCount |-> -1]
    /\ UNCHANGED <<files, nextId, aged, store, puts, docs, jobs, faults, confirm, chat, nChats, reserve, notifVars>>

\* 2. best-effort DeleteObjectCommand for the next selected file
SweepDeleteObject ==
    /\ sweep.pc = "deleteObject"
    /\ store' = RemoveKey(store, Head(sweep.todo))
    /\ sweep' = [sweep EXCEPT !.pc = "deleteRow"]
    /\ UNCHANGED <<files, nextId, aged, puts, docs, jobs, faults, confirm, chat, nChats, reserve, notifVars>>

SweepDeleteObjectFails ==
    /\ sweep.pc = "deleteObject"
    /\ MayFail
    /\ faults' = faults + 1
    /\ sweep' = [sweep EXCEPT !.pc = "deleteRow"]
    /\ UNCHANGED <<files, nextId, aged, store, puts, docs, jobs, confirm, chat, nChats, reserve, notifVars>>

\* prisma.file.delete for that file; its error is logged and the loop goes on
SweepAfterRow(n) ==
    IF Len(sweep.todo) > 1
    THEN [pc |-> "deleteObject", todo |-> Tail(sweep.todo), deletedCount |-> n,
          cleanedCount |-> -1]
    ELSE [IdleSweep EXCEPT !.cleanedCount = n]

SweepDeleteRow ==
    /\ sweep.pc = "deleteRow"
    /\ IF Exists(Head(sweep.todo))
       THEN /\ files' = RemoveKey(files, Head(sweep.todo))
            /\ docs' = DocsWithoutFile(Head(sweep.todo))
            /\ sweep' = SweepAfterRow(sweep.deletedCount + 1)
       ELSE /\ sweep' = SweepAfterRow(sweep.deletedCount)
            /\ UNCHANGED <<files, docs>>
    /\ UNCHANGED <<nextId, aged, store, puts, jobs, faults, confirm, chat, nChats, reserve, notifVars>>

ProcessFileCleanupJob ==
    \/ SweepFindMany \/ SweepDeleteObject \/ SweepDeleteObjectFails \/ SweepDeleteRow

\* --------------------------------------------------- agentService.chat
Msg(role, content) == [role |-> role, content |-> content]

\* request bodies a client may send
ChatInputs ==
    { <<>>,
      <<Msg("user", "q1")>>,
      <<Msg("user", "")>>,
      <<Msg("assistant", "q3")>>,
      <<Msg("user", "q1"), Msg("assistant", "x"), Msg("user", "q3")>> }

\* texts the query-rewriter model may return
RewriteOutputs == {"q1", "q3"}

\* mutant: the OR branch tests that the File exists instead of its isPublic flag
Visible_AnyFile(d, u) == d.userId = u \/ Exists(d.fileId)

\* WHERE (d."userId" = ${userId} OR f."isPublic" = true), f being the LEFT JOINed File
Visible(d, u) == d.userId = u \/ (Exists(d.fileId) /\ files[d.fileId].isPublic)

VisibleDocs(u) == [d \in {r \in DOMAIN docs : Visible(r, u)} |-> docs[d]]

\* the store's natural row order, used where distances tie
RowOrder(d) == d.fileId * (Limit + 1) + d.content[2]

\* mutant: ORDER BY distance DESC
SortsFirst_Desc(r, B, v) ==
    \A s \in DOMAIN B :
        \/ Distance(r.embedding, v) > Distance(s.embedding, v)
        \/ /\ Distance(r.embedding, v) = Distance(s.embedding, v)
           /\ RowOrder(r) <= RowOrder(s)

\* ORDER BY distance ASC: r sorts before every other row of B
SortsFirst(r, B, v) ==
    \A s \in DOMAIN B :
        \/ Distance(r.embedding, v) < Distance(s.embedding, v)
        \/ /\ Distance(r.embedding, v) = Distance(s.embedding, v)
           /\ RowOrder(r) <= RowOrder(s)

\* the columns of the SELECT list
Selected(d, v) ==
    [content |-> d.content, fileKey |-> d.fileId,
     isPublic |-> files[d.fileId].isPublic,
     distance |-> Distance(d.embedding, v)]

\* ORDER BY distance ASC LIMIT n over the rows of bag B
RECURSIVE OrderByLimit(_, _, _)
OrderByLimit(B, v, n) ==
    IF n = 0 \/ DOMAIN B = {} THEN <<>>
    ELSE LET r == CHOOSE x \in DOMAIN B : SortsFirst(x, B, v)
         IN  <<Selected(r, v)>> \o OrderByLimit(B (-) SetToBag({r}), v, n - 1)

\* the prisma.$queryRaw of chat
SimilarityQuery(u, v) == OrderByLimit(VisibleDocs(u), v, Limit)

\* const lastMessage = messages[messages.length - 1]; 400 unless it has content
Rejects(messages) == Len(messages) = 0 \/ messages[Len(messages)].content = ""

ChatStart(u, messages) ==
    /\ chat.pc \in {"idle", "done"}
    /\ nChats < MaxChats
    /\ nChats' = nChats + 1
    /\ chat' = IF Rejects(messages)
               THEN [IdleChat EXCEPT !.pc = "done", !.user = u, !.messages = messages,
                                     !.outcome = "400"]
               ELSE [IdleChat EXCEPT !.pc = IF Len(messages) > 1 THEN "rewrite" ELSE "embed",
                                     !.user = u, !.messages = messages,
                                     !.searchQuery = messages[Len(messages)].content]
    /\ UNCHANGED <<files, nextId, aged, store, puts, docs, jobs, faults, confirm, sweep, reserve, notifVars>>

\* 1. generateText with the query-rewriter prompt
ChatRewrite(text) ==
    /\ chat.pc = "rewrite"
    /\ chat' = [chat EXCEPT !.pc = "embed", !.searchQuery = text,
                            !.calls = @ \cup {"rewrite"}]
    /\ UNCHANGED <<files, nextId, aged, store, puts, docs, jobs, faults, confirm, sweep, nChats, reserve, notifVars>>

\* mutant: a thrown rewrite call ends the request with an error
ChatRewriteFails_Rejects ==
    /\ chat.pc = "rewrite"
    /\ MayFail
    /\ faults' = faults + 1
    /\ chat' = [chat EXCEPT !.pc = "done", !.outcome = "error", !.calls = @ \cup {"rewrite"}]
    /\ UNCHANGED <<files, nextId, aged, store, puts, docs, jobs, confirm, sweep, nChats, reserve, notifVars>>

\* the rewrite throws: fall back to the original content
ChatRewriteFails ==
    /\ chat.pc = "rewrite"
    /\ MayFail
    /\ faults' = faults + 1
    /\ chat' = [chat EXCEPT !.pc = "embed", !.calls = @ \cup {"rewrite"}]
    /\ UNCHANGED <<files, nextId, aged, store, puts, docs, jobs, confirm, sweep, nChats, reserve, notifVars>>

\* 2. embed the search query
ChatEmbed ==
    /\ chat.pc = "embed"
    /\ chat' = [chat EXCEPT !.pc = "query", !.embedding = EmbedQuery(chat.searchQuery),
                            !.calls = @ \cup {"embed"}]
    /\ UNCHANGED <<files, nextId, aged, store, puts, docs, jobs, faults, confirm, sweep, nChats, reserve, notifVars>>

ChatEmbedFails ==
    /\ chat.pc = "embed"
    /\ MayFail
    /\ faults' = faults + 1
    /\ chat' = [chat EXCEPT !.pc = "done", !.outcome = "error", !.calls = @ \cup {"embed"}]
    /\ UNCHANGED <<files, nextId, aged, store, puts, docs, jobs, confirm, sweep, nChats, reserve, notifVars>>

\* 4. the similarity query
ChatQuery ==
    /\ chat.pc = "query"
    /\ chat' = [chat EXCEPT !.pc = "links",
                            !.documents = SimilarityQuery(chat.user, chat.embedding)]
    /\ UNCHANGED <<files, nextId, aged, store, puts, docs, jobs, faults, confirm, sweep, nChats, reserve, notifVars>>

\* let signedUrl = 'unavailable': the link of a document before and without getSignedUrl
UnavailableLink == <<"unavailable">>

\* if (doc.fileKey): the joined File gave the row a storage key
HasKey(doc) == doc.fileKey \in FileIds

\* mutant: one thrown getSignedUrl leaves every document without its link
ChatLinks_AllOrNone(failing) ==
    /\ chat.pc = "links"
    /\ failing \subseteq {i \in DOMAIN chat.documents : HasKey(chat.documents[i])}
    /\ faults + Cardinality(failing) <= MaxFaults
    /\ faults' = faults + Cardinality(failing)
    /\ chat' = [chat EXCEPT !.pc = "generate",
                            !.links = [i \in DOMAIN chat.documents |->
                                         IF failing = {}
                                         THEN <<"url", chat.documents[i].fileKey>>
                                         ELSE UnavailableLink]]
    /\ UNCHANGED <<files, nextId, aged, store, puts, docs, jobs, confirm, sweep, nChats, reserve, notifVars>>

\* 5. one presigned link per document, 'unavailable' where the row has no key
\* or getSignedUrl throws
ChatLinks(failing) ==
    /\ chat.pc = "links"
    /\ failing \subseteq {i \in DOMAIN chat.documents : HasKey(chat.documents[i])}
    /\ faults + Cardinality(failing) <= MaxFaults
    /\ faults' = faults + Cardinality(failing)
    /\ chat' = [chat EXCEPT !.pc = "generate",
                            !.links = [i \in DOMAIN chat.documents |->
                                         IF HasKey(chat.documents[i]) /\ i \notin failing
                                         THEN <<"url", chat.documents[i].fileKey>>
                                         ELSE UnavailableLink]]
    /\ UNCHANGED <<files, nextId, aged, store, puts, docs, jobs, confirm, sweep, nChats, reserve, notifVars>>

\* 6. streamText with the packaged context
ChatGenerate ==
    /\ chat.pc = "generate"
    /\ chat' = [chat EXCEPT !.pc = "done", !.outcome = "stream",
                            !.documents = <<>>, !.links = <<>>,
                            !.calls = @ \cup {"generate"}]
    /\ UNCHANGED <<files, nextId, aged, store, puts, docs, jobs, faults, confirm, sweep, nChats, reserve, notifVars>>

Chat ==
    \/ \E u \in Users, m \in ChatInputs : ChatStart(u, m)
    \/ \E t \in RewriteOutputs : ChatRewrite(t)
    \/ ChatRewriteFails \/ ChatEmbed \/ ChatEmbedFails \/ ChatQuery
    \/ \E failing \in SUBSET (1..Limit) : ChatLinks(failing)
    \/ ChatGenerate

\* ----------------------------------------------------------- notifications
\* socket.io room of a user: the connected sockets that joined it
Room(u) == {s \in Sockets : sockets[s].connected /\ sockets[s].user = u}

\* SocketService.isUserOnline: io.in(room).fetchSockets() is not empty
IsUserOnline(u) == Room(u) # {}

\* notificationService.getNotificationsForUser, filtered to status PENDING
Undelivered(u) ==
    {n \in DOMAIN notifications :
        notifications[n].userId = u /\ notifications[n].status = "PENDING"}

\* prisma.notification.updateMany({ where: { id: { in: ids } }, data: { status } })
UpdateNotificationsStatus(ids, status) ==
    [n \in DOMAIN notifications |->
        IF n \in ids THEN [notifications[n] EXCEPT !.status = status]
        ELSE notifications[n]]

\* createNotificationsForUserIds, 1: Promise.all of isUserOnline per user
PrepareData(userIds) ==
    /\ notify.pc = "idle"
    /\ notify' = [pc |-> "createMany", first |-> 0,
                  data |-> [i \in 1..Len(userIds) |->
                              [userId |-> userIds[i],
                               isOnline |-> IsUserOnline(userIds[i])]]]
    /\ UNCHANGED <<pipelineVars, notifications, sockets, emitted>>

\* createNotificationsForUserIds, 2: prisma.notification.createMany.  The
\* rows get the next ids; first remembers the id before them (createMany
\* itself returns no ids to the caller).
CreateMany ==
    /\ notify.pc = "createMany"
    /\ notifications' = notifications \o
          [i \in 1..Len(notify.data) |->
              [userId |-> notify.data[i].userId,
               status |-> IF notify.data[i].isOnline THEN "DELIVERED"
                          ELSE "PENDING"]]
    /\ notify' = [notify EXCEPT !.pc = "emit", !.first = Len(notifications)]
    /\ UNCHANGED <<pipelineVars, sockets, emitted>>

\* rows of the running call whose emission (step 3) is still to come
EmitInFlight(n) ==
    /\ notify.pc = "emit"
    /\ n \in (notify.first + 1)..(notify.first + Len(notify.data))

\* createNotificationsForUserIds, 3: emitToUser for every user found online
\* in step 1; io.to(room).emit reaches the sockets in the room now.
EmitToOnline ==
    /\ notify.pc = "emit"
    /\ emitted' = emitted \cup
          {notify.first + i : i \in {k \in 1..Len(notify.data) :
                                        /\ notify.data[k].isOnline
                                        /\ Room(notify.data[k].userId) # {}}}
    /\ notify' = IdleNotify
    /\ UNCHANGED <<pipelineVars, notifications, sockets>>

\* io.on('connection'): an authenticated socket joins the room of its user.
\* since is the number of rows persisted when the connection was made.
OnConnection(s, u) ==
    /\ ~sockets[s].connected
    /\ sockets[s].pc = "done"
    /\ sockets' = [sockets EXCEPT ![s] = [user |-> u, connected |-> TRUE, pc |-> "fetch",
                                         undelivered |-> {}, since |-> Len(notifications)]]
    /\ UNCHANGED <<pipelineVars, notifications, notify, emitted>>

\* connection handler: await getNotificationsForUser, keep the PENDING ones
GetNotificationsForUser(s) ==
    /\ sockets[s].pc = "fetch"
    /\ sockets' = [sockets EXCEPT ![s].undelivered = Undelivered(sockets[s].user),
                                  ![s].pc = IF Undelivered(sockets[s].user) = {}
                                            THEN "done" ELSE "emit"]
    /\ UNCHANGED <<pipelineVars, notifications, notify, emitted>>

\* connection handler: extendedSocket.emit('pending_notifications', ...);
\* a socket that has disconnected meanwhile receives nothing.
EmitPending(s) ==
    /\ sockets[s].pc = "emit"
    /\ emitted' = IF sockets[s].connected THEN emitted \cup sockets[s].undelivered
                  ELSE emitted
    /\ sockets' = [sockets EXCEPT ![s].pc = "update"]
    /\ UNCHANGED <<pipelineVars, notifications, notify>>

\* connection handler: await updateNotificationsStatus(ids, DELIVERED)
MarkDelivered(s) ==
    /\ sockets[s].pc = "update"
    /\ notifications' = UpdateNotificationsStatus(sockets[s].undelivered, "DELIVERED")
    /\ sockets' = [sockets EXCEPT ![s].pc = "done", ![s].undelivered = {}]
    /\ UNCHANGED <<pipelineVars, notify, emitted>>

\* the client goes away; the socket leaves its rooms
Disconnect(s) ==
    /\ sockets[s].connected
    /\ sockets' = [sockets EXCEPT ![s].connected = FALSE]
    /\ UNCHANGED <<pipelineVars, notifications, notify, emitted>>

\* notificationService.markAsRead of a row the user owns (any other id throws)
MarkAsRead(n, u) ==
    /\ n \in DOMAIN notifications
    /\ notifications[n].userId = u
    /\ notifications' = UpdateNotificationsStatus({n}, "READ")
    /\ UNCHANGED <<pipelineVars, sockets, notify, emitted>>

\* ------------------------------------------------------- specifications
\* Upload and ingestion.  Files are private plain text; any user may try to
\* confirm any file id.
UploadPrivate ==
    \/ \E u \in Users : nextId < MaxFiles /\ GenerateSignedUrl(u, "text/plain", 1, FALSE)
    \/ \E f \in FileIds, c \in {"a", "e"} : PutObject(f, c)
    \/ \E u \in Users, f \in FileIds : confirm.n < MaxConfirms /\ ConfirmUpload(u, f)

NextPipeline ==
    \/ UploadPrivate
    \/ \E j \in 1..MaxConfirms : Deliver(j) \/ ProcessJobText(j)

SpecPipeline == Init /\ [][NextPipeline]_vars

\* Upload, ingestion and single-turn chat.  Files are private or public
\* three-chunk texts, confirmed once by their owner; the remote calls of the
\* job succeed.
UploadShared ==
    \/ \E u \in Users, p \in BOOLEAN :
          nextId < MaxFiles /\ GenerateSignedUrl(u, "text/plain", 1, p)
    \/ \E f \in FileIds : PutObject(f, "b")
    \/ \E f \in DOMAIN files :
          /\ \A j \in JobIds : jobs[j].fileId # f
          /\ ConfirmUpload(files[f].userId, f)

SingleTurn == {<<>>, <<Msg("user", "q3")>>, <<Msg("assistant", "q1")>>}

ChatSingleTurn ==
    \/ \E m \in SingleTurn : ChatStart("u1", m)
    \/ ChatEmbed \/ ChatEmbedFails \/ ChatQuery \/ ChatLinks({}) \/ ChatGenerate

NextChat ==
    \/ UploadShared
    \/ \E j \in 1..MaxFiles : Deliver(j) \/ ProcessJobReliable(j)
    \/ ChatSingleTurn

SpecChat == Init /\ [][NextChat]_vars

\* Deduplication scenario.  Private files holding a two-chunk text or blanks;
\* the owner confirms a file once the jobs queued before have settled, so
\* that each job starts after the earlier ones have finished; the remote
\* calls of the job succeed.
Settled == \A j \in JobIds : jobs[j].state \in {"completed", "failed"}

UploadOwn ==
    \/ \E u \in Users : nextId < MaxCopies /\ GenerateSignedUrl(u, "text/plain", 1, FALSE)
    \/ \E f \in 1..MaxCopies, c \in {"a", "e"} : PutObject(f, c)
    \/ \E f \in DOMAIN files :
          /\ \A j \in JobIds : jobs[j].fileId # f
          /\ Settled
          /\ ConfirmUpload(files[f].userId, f)

NextDedup ==
    \/ UploadOwn
    \/ \E j \in 1..MaxCopies : Deliver(j) \/ ProcessJobReliable(j) \/ MarkEmpty(j)

SpecDedup == Init /\ [][NextDedup]_vars

\* Confirmation scenario.  Any user confirms any file id at any time, before
\* or after the bytes are there and however often; a job whose File row is
\* gone throws and is retried.
UploadAnyone ==
    \/ \E u \in Users : nextId < MaxFiles /\ GenerateSignedUrl(u, "text/plain", 1, FALSE)
    \/ \E f \in FileIds : PutObject(f, "a")
    \/ \E u \in Users, f \in FileIds : confirm.n < MaxConfirms /\ ConfirmUpload(u, f)

NextConfirm ==
    \/ UploadAnyone
    \/ \E j \in 1..MaxConfirms : Deliver(j) \/ ProcessJobReliable(j) \/ Catch(j)

SpecConfirm == Init /\ [][NextConfirm]_vars

\* Retrieval scenario.  Private and public three-chunk texts; the owner
\* confirms a file once the jobs queued before have settled, and one user
\* asks a one-message question at any moment of the ingestion.
UploadSettled ==
    \/ \E u \in Users, p \in BOOLEAN :
          nextId < MaxFiles /\ GenerateSignedUrl(u, "text/plain", 1, p)
    \/ \E f \in FileIds : PutObject(f, "b")
    \/ \E f \in DOMAIN files :
          /\ \A j \in JobIds : jobs[j].fileId # f
          /\ Settled
          /\ ConfirmUpload(files[f].userId, f)

ChatQuestion ==
    \/ ChatStart("u1", <<Msg("user", "q3")>>)
    \/ ChatEmbed \/ ChatQuery \/ ChatLinks({}) \/ ChatGenerate

NextRetrieval ==
    \/ UploadSettled
    \/ \E j \in 1..MaxFiles : Deliver(j) \/ ProcessJobReliable(j)
    \/ ChatQuestion

SpecRetrieval == Init /\ [][NextRetrieval]_vars

\* Reservation scenario.  Users ask for URLs with allowed and unsupported
\* MIME types and sizes at and above the limit; the owner confirms a file
\* once the jobs queued before have settled.
RequestedTypes == {"text/plain", "image/png", "application/zip"}

RequestedSizes == {MaxFileSize, MaxFileSize + 1}

UploadRequested ==
    \/ \E u \in Users, t \in RequestedTypes, z \in RequestedSizes :
          nextId < MaxFiles /\ GenerateSignedUrl(u, t, z, FALSE)
    \/ \E f \in FileIds : PutObject(f, "a")
    \/ \E f \in DOMAIN files :
          /\ \A j \in JobIds : jobs[j].fileId # f
          /\ Settled
          /\ ConfirmUpload(files[f].userId, f)

NextReserve ==
    \/ UploadRequested
    \/ \E j \in 1..MaxFiles : Deliver(j) \/ ProcessJobReliable(j)

SpecReserve == Init /\ [][NextReserve]_vars

\* Visibility scenario.  A user and an admin reserve private or public text
\* files, a contributor public ones; the owner confirms a file once the jobs
\* queued before have settled; a day may pass and the cleanup sweep runs at
\* any time.
RequestsByRole ==
    {<<"u1", FALSE>>, <<"u1", TRUE>>, <<"u2", FALSE>>, <<"u2", TRUE>>, <<"u3", TRUE>>}

UploadByRole ==
    \/ \E r \in RequestsByRole :
          nextId < MaxFiles /\ GenerateSignedUrl(r[1], "text/plain", 1, r[2])
    \/ \E f \in FileIds : PutObject(f, "a")
    \/ \E f \in DOMAIN files :
          /\ \A j \in JobIds : jobs[j].fileId # f
          /\ Settled
          /\ ConfirmUpload(files[f].userId, f)

NextVisibility ==
    \/ UploadByRole
    \/ \E j \in 1..MaxFiles : Deliver(j) \/ ProcessJobReliable(j)
    \/ Tick
    \/ SweepFindMany \/ SweepDeleteObject \/ SweepDeleteRow

SpecVisibility == Init /\ [][NextVisibility]_vars

\* Cleanup scenario.  Private text files, some of them whitespace only, each
\* confirmed once by its owner
\* at any time; days pass and the cleanup sweep runs while jobs are queued or
\* running; an object-store delete of the sweep may fail.
UploadSweepable ==
    \/ \E u \in Users : nextId < MaxFiles /\ GenerateSignedUrl(u, "text/plain", 1, FALSE)
    \/ \E f \in FileIds : PutObject(f, "a") \/ PutObject(f, "e")
    \/ \E f \in DOMAIN files :
          /\ \A j \in JobIds : jobs[j].fileId # f
          /\ ConfirmUpload(files[f].userId, f)

NextCleanup ==
    \/ UploadSweepable
    \/ \E j \in 1..MaxFiles : Deliver(j) \/ ProcessJobReliable(j) \/ MarkEmpty(j) \/ Catch(j)
    \/ Tick
    \/ ProcessFileCleanupJob

SpecCleanup == Init /\ [][NextCleanup]_vars

\* Notifications.  An admin or a service notifies one or several users while
\* their clients connect, disconnect and mark notifications as read.
NotifyInputs == {<<"u1">>, <<"u2">>, <<"u1", "u2">>}

SendNotification ==
    \E userIds \in NotifyInputs :
        /\ Len(notifications) + Len(userIds) <= MaxNotifications
        /\ PrepareData(userIds)

NextNotify ==
    \/ SendNotification
    \/ CreateMany
    \/ EmitToOnline
    \/ \E s \in Sockets, u \in Users : OnConnection(s, u)
    \/ \E s \in Sockets : GetNotificationsForUser(s) \/ EmitPending(s) \/ MarkDelivered(s) \/ Disconnect(s)
    \/ \E n \in 1..MaxNotifications, u \in Users : MarkAsRead(n, u)

SpecNotify == Init /\ [][NextNotify]_vars

\* Failure scenario.  One user uploads (or fails to upload) the same text
\* and confirms files, possibly twice; one job runs at a time; the object
\* store and the embedding model may fail.
UploadFailing ==
    \/ nextId < MaxFiles /\ GenerateSignedUrl("u1", "text/plain", 1, FALSE)
    \/ \E f \in FileIds : PutObject(f, "a")
    \/ \E f \in FileIds : confirm.n < MaxConfirms /\ ConfirmUpload("u1", f)

ProcessJobFailing(j) ==
    \/ ProcessJobReliable(j)
    \/ DownloadFails(j) \/ DeleteObjectFails(j) \/ EmbedFails(j)
    \/ Catch(j)

NextFailure ==
    \/ UploadFailing
    \/ \E j \in 1..MaxConfirms : (Active = {} /\ Deliver(j)) \/ ProcessJobFailing(j)

SpecFailure == Init /\ [][NextFailure]_vars

\* Race scenario.  One user uploads the same text several times and confirms
\* each file once; the jobs run on all workers at once, without failures.
UploadCopies ==
    \/ nextId < MaxFiles /\ GenerateSignedUrl("u1", "text/plain", 1, FALSE)
    \/ \E f \in FileIds : PutObject(f, "a")
    \/ \E f \in DOMAIN files :
          /\ \A j \in JobIds : jobs[j].fileId # f
          /\ ConfirmUpload("u1", f)

NextRace ==
    \/ UploadCopies
    \/ \E j \in 1..MaxFiles : Deliver(j) \/ ProcessJobReliable(j)

SpecRace == Init /\ [][NextRace]_vars

\* Owners scenario.  Two users upload the same text and confirm each of
\* their files once; the jobs run on all workers at once, without failures.
UploadByOwners ==
    \/ \E u \in Users : nextId < MaxFiles /\ GenerateSignedUrl(u, "text/plain", 1, FALSE)
    \/ \E f \in FileIds : PutObject(f, "a")
    \/ \E f \in DOMAIN files :
          /\ \A j \in JobIds : jobs[j].fileId # f
          /\ ConfirmUpload(files[f].userId, f)

NextOwners ==
    \/ UploadByOwners
    \/ \E j \in 1..MaxFiles : Deliver(j) \/ ProcessJobReliable(j)

SpecOwners == Init /\ [][NextOwners]_vars

\* Embedding scenario.  One user uploads the same text, confirms each file
\* once and asks a question; jobs and the chat request run one at a time; an
\* embedding call of either may fail.
UploadOne ==
    \/ nextId < MaxFiles /\ GenerateSignedUrl("u1", "text/plain", 1, FALSE)
    \/ \E f \in FileIds : PutObject(f, "a")
    \/ \E f \in DOMAIN files :
          /\ \A j \in JobIds : jobs[j].fileId # f
          /\ ConfirmUpload("u1", f)

Quiet == Active = {} /\ chat.pc \in {"idle", "done"}

ChatOnce ==
    \/ (Quiet /\ ChatStart("u1", <<Msg("user", "q3")>>))
    \/ ChatEmbed \/ ChatEmbedFails \/ ChatQuery \/ ChatLinks({}) \/ ChatGenerate

NextEmbedding ==
    \/ UploadOne
    \/ \E j \in 1..MaxFiles :
          (Quiet /\ Deliver(j)) \/ ProcessJobReliable(j) \/ EmbedFails(j) \/ Catch(j)
    \/ ChatOnce

SpecEmbedding == Init /\ [][NextEmbedding]_vars

\* Conversation scenario.  One user uploads the same text and confirms each
\* file once; jobs and chat requests run one at a time.  A request carries
\* any body, with or without prior turns; the rewrite call, the embedding
\* call and the issuing of any link may fail.
ChatTurns ==
    \/ \E m \in ChatInputs : Quiet /\ ChatStart("u1", m)
    \/ \E t \in RewriteOutputs : ChatRewrite(t)
    \/ ChatRewriteFails \/ ChatEmbed \/ ChatEmbedFails \/ ChatQuery
    \/ \E failing \in SUBSET (1..Limit) : ChatLinks(failing)
    \/ ChatGenerate

NextConversation ==
    \/ UploadOne
    \/ \E j \in 1..MaxFiles : (Quiet /\ Deliver(j)) \/ ProcessJobReliable(j)
    \/ ChatTurns

SpecConversation == Init /\ [][NextConversation]_vars

\* Fair ingestion.  One user uploads the same text file after file, each
\* once the jobs of the files before have finished, and confirms each file
\* once, before or after its bytes are there; one job runs at a time; a
\* download, the first read of the File row and the FAILED update of the
\* catch block may each return an error.  A Worker keeps taking waiting jobs
\* and every awaited call of a running job returns, so each job keeps taking
\* steps while it has one to take.
ProcessJobUnreliable(j) ==
    \/ ProcessJobReliable(j) \/ DownloadFails(j) \/ Catch(j)
    \/ FindUniqueFails(j) \/ CatchUpdateFails(j)

RunJob(j) == (Active = {} /\ Deliver(j)) \/ ProcessJobUnreliable(j)

UploadInTurn ==
    \/ /\ nextId < MaxFiles
       /\ Settled
       /\ \A f \in DOMAIN files : \E j \in JobIds : jobs[j].fileId = f
       /\ GenerateSignedUrl("u1", "text/plain", 1, FALSE)
    \/ \E f \in FileIds : PutObject(f, "a")
    \/ \E f \in DOMAIN files :
          /\ \A j \in JobIds : jobs[j].fileId # f
          /\ ConfirmUpload("u1", f)

NextIngestion ==
    \/ UploadInTurn
    \/ \E j \in 1..MaxFiles : RunJob(j)

FairIngestion == \A j \in 1..MaxFiles : WF_vars(RunJob(j))

SpecIngestionFair == Init /\ [][NextIngestion]_vars /\ FairIngestion

\* ------------------------------------------------------------------ claims
\* vectors a query can have
QueryVectors == {EmbedQuery(q) : q \in {"q1", "q3"}}

Min(a, b) == IF a < b THEN a ELSE b

\* C1: access control of retrieval.  In every reachable state, the similarity
\* query issued for any user A returns only chunks whose owning File is owned
\* by A or is public.
C1_AccessControl ==
    \A u \in Users, v \in QueryVectors :
        LET R == SimilarityQuery(u, v)
        IN  \A i \in DOMAIN R :
                /\ Exists(R[i].fileKey)
                /\ files[R[i].fileKey].userId = u \/ files[R[i].fileKey].isPublic

\* chat has run its query with a result while another user's private File has chunk rows
C1_Witness ==
    /\ chat.pc = "links"
    /\ chat.documents # <<>>
    /\ \E d \in DOMAIN docs :
          /\ files[d.fileId].userId # chat.user
          /\ ~ files[d.fileId].isPublic

\* C8: ranking and bound.  The similarity query returns min(5, visible) chunks,
\* each a visible chunk, in ascending order of distance, and they are the
\* visible chunks of smallest distance.
AtMost(B, v, t) == BagCardinality([d \in {r \in DOMAIN B : Distance(r.embedding, v) <= t} |-> B[d]])

C8_Ranking ==
    \A u \in Users, v \in QueryVectors :
        LET R == SimilarityQuery(u, v)
            V == VisibleDocs(u)
        IN  /\ Len(R) <= 5
            /\ Len(R) = Min(5, BagCardinality(V))
            /\ \A i \in DOMAIN R : \E d \in DOMAIN V : R[i] = Selected(d, v)
            /\ \A i \in DOMAIN R : i > 1 => R[i - 1].distance <= R[i].distance
            /\ \A t \in 0..3 :
                  Cardinality({i \in DOMAIN R : R[i].distance <= t}) = Min(Len(R), AtMost(V, v, t))

\* chat got 5 chunks out of more visible ones, the nearest not being the first row stored
C8_Witness ==
    /\ chat.pc = "links"
    /\ Len(chat.documents) = 5
    /\ BagCardinality(VisibleDocs(chat.user)) > 5
    /\ chat.documents[1].content[2] = 3
    /\ chat.documents[1].distance < chat.documents[5].distance

\* C9: retrieval only sees fully indexed files.  Every chunk the similarity
\* query returns belongs to a File whose status is COMPLETED.
C9_OnlyCompleted ==
    \A u \in Users, v \in QueryVectors :
        LET R == SimilarityQuery(u, v)
        IN  \A i \in DOMAIN R : files[R[i].fileKey].status = "COMPLETED"

\* C10: chat request shape.  A model call (rewrite, embedding, generation) is
\* made only for a request with at least one message whose last role is user.
C10_RequestShape ==
    chat.calls # {} =>
        /\ Len(chat.messages) >= 1
        /\ chat.messages[Len(chat.messages)].role = "user"

\* jobs k of the queue other than j1 and j2 are for other files
OnlyJobsOf(j1, j2) ==
    \A k \in JobIds \ {j1, j2} : jobs[k].fileId \notin {jobs[j1].fileId, jobs[j2].fileId}

\* job j ran once, without an error, and has returned
RanOnce(j) == jobs[j].state = "completed" /\ jobs[j].result = "ok" /\ jobs[j].attemptsMade = 1

\* j1 and j2 are the only jobs of two Files of one user with the same non-empty
\* bytes; j1 ran once and returned before j2 was delivered; j2 ran once and returned
C2_Case(j1, j2) ==
    LET f1 == jobs[j1].fileId
        f2 == jobs[j2].fileId
    IN  /\ f1 # f2
        /\ OnlyJobsOf(j1, j2)
        /\ RanOnce(j1) /\ RanOnce(j2)
        /\ j1 \in jobs[j2].pred
        /\ f1 \in DOMAIN puts /\ f2 \in DOMAIN puts
        /\ puts[f1] = puts[f2] /\ ~ TrimIsEmpty(puts[f1])
        /\ Exists(f1) /\ Exists(f2)
        /\ files[f1].userId = files[f2].userId

\* C2 as stated: deduplication.  Two Files of one user with byte-identical
\* non-empty content, the second ingested after the first has finished without
\* failure: the first is COMPLETED and keeps its object, the second is
\* DUPLICATE with the same hash stored and its object deleted.
C2_Deduplication ==
    \A j1 \in JobIds, j2 \in JobIds :
        C2_Case(j1, j2) =>
            LET f1 == jobs[j1].fileId
                f2 == jobs[j2].fileId
            IN  /\ files[f1].status = "COMPLETED"
                /\ files[f2].status = "DUPLICATE"
                /\ files[f2].fileHash = Sha256(puts[f2])
                /\ files[f2].fileHash = files[f1].fileHash
                /\ f2 \notin DOMAIN store
                /\ f1 \in DOMAIN store /\ store[f1] = puts[f1]

\* no File of f1's owner other than f1 and f2 has received the bytes of f1
NoOtherCopy(f1, f2) ==
    \A g \in DOMAIN files \ {f1, f2} :
        files[g].userId = files[f1].userId => ~ (g \in DOMAIN puts /\ puts[g] = puts[f1])

\* C2 amended: deduplication.  In the same case the second File is DUPLICATE
\* with the content hash stored and its object deleted; the first File is
\* COMPLETED with the same hash and keeps its object when no other File of
\* that user holds the same bytes.
C2_DeduplicationOfFirstCopy ==
    \A j1 \in JobIds, j2 \in JobIds :
        C2_Case(j1, j2) =>
            LET f1 == jobs[j1].fileId
                f2 == jobs[j2].fileId
            IN  /\ files[f2].status = "DUPLICATE"
                /\ files[f2].fileHash = Sha256(puts[f2])
                /\ f2 \notin DOMAIN store
                /\ NoOtherCopy(f1, f2) =>
                      /\ files[f1].status = "COMPLETED"
                      /\ files[f2].fileHash = files[f1].fileHash
                      /\ f1 \in DOMAIN store /\ store[f1] = puts[f1]

\* the case has happened beside a third File that is no copy of the two
C2_Witness ==
    \E j1 \in JobIds, j2 \in JobIds :
        /\ C2_Case(j1, j2)
        /\ NoOtherCopy(jobs[j1].fileId, jobs[j2].fileId)
        /\ Cardinality(DOMAIN files) = 3

\* C3: idempotent no-op on a missing row.  A processJob execution that finds no
\* File row for its fileId changes no File, chunk or object and does not end
\* with an error raised to the queue.
FoundNoRow(j) ==
    /\ j \in JobIds
    /\ jobs[j].state = "active"
    /\ jobs[j].userId = ""
    /\ jobs[j].pc \in {"findUnique", "catch"}
    /\ ~ Exists(jobs[j].fileId)

C3_MissingRowNoOp ==
    [][\A j \in JobIds :
          (FoundNoRow(j) /\ jobs'[j] # jobs[j]) =>
              /\ jobs'[j].result # "error"
              /\ UNCHANGED <<files, docs, store>>]_vars

\* C4: monotonic lifecycle.  The status of a File row only moves forward along
\* PENDING -> PROCESSING -> {COMPLETED, DUPLICATE, FAILED}, and a COMPLETED,
\* DUPLICATE or FAILED status never changes again.
Stage(status) == CASE status = "PENDING" -> 0 [] status = "PROCESSING" -> 1 [] OTHER -> 2

C4_MonotonicLifecycle ==
    [][\A f \in FileIds :
          (f \in DOMAIN files /\ f \in DOMAIN files') =>
              /\ Stage(files'[f].status) >= Stage(files[f].status)
              /\ Stage(files[f].status) = 2 => files'[f].status = files[f].status]_vars

\* C5: at most one in flight.  No two executions of processJob for the same
\* fileId are in progress at once.
C5_AtMostOneInFlight ==
    \A j1 \in Active, j2 \in Active : j1 # j2 => jobs[j1].fileId # jobs[j2].fileId

\* C6: safe re-execution.  A File that its only job, after whatever failed
\* attempts, has brought to COMPLETED has exactly one chunk row per chunk of
\* its text and no other chunk row.
RowsOf(f) == [d \in {r \in DOMAIN docs : r.fileId = f} |-> docs[d]]

C6_SafeReexecution ==
    \A j \in JobIds :
        LET f == jobs[j].fileId
        IN  ( /\ \A k \in JobIds \ {j} : jobs[k].fileId # f
              /\ jobs[j].state = "completed"
              /\ Exists(f) /\ files[f].status = "COMPLETED" ) =>
                /\ BagCardinality(RowsOf(f)) = NumChunks(puts[f])
                /\ \A d \in DOMAIN RowsOf(f) : docs[d] = 1

\* C7: confirmation is authorized before enqueueing.  A confirmUpload by the
\* owner of an existing File answers 201 and adds exactly one 'ingest' job with
\* payload {fileId}; for a missing File it answers 404, for another user's
\* File 403, and in both cases the queue is left as it was.
C7_ConfirmAuthorized ==
    [][confirm'.n # confirm.n =>
          LET u == confirm'.user
              f == confirm'.fileId
          IN  IF f \in DOMAIN files /\ files[f].userId = u
              THEN /\ confirm'.status = 201
                   /\ Len(jobs') = Len(jobs) + 1
                   /\ SubSeq(jobs', 1, Len(jobs)) = jobs
                   /\ jobs'[Len(jobs')].name = "ingest"
                   /\ jobs'[Len(jobs')].fileId = f
                   /\ jobs'[Len(jobs')].state = "waiting"
              ELSE /\ confirm'.status = IF f \in DOMAIN files THEN 403 ELSE 404
                   /\ jobs' = jobs]_vars

\* a call was rejected with 403 after a job had been queued, and the queue holds that one job
C7_Witness == confirm.status = 403 /\ Len(jobs) = 1 /\ confirm.n > 1

\* C11: rejected reservations leave no trace.  A generateSignedUrl call with a
\* fileType outside the allowed list or a fileSize above the limit answers 400,
\* creates no File row and issues no URL; every File row, and every row a job
\* has loaded, has an allowed MIME type.
RejectedLeavesNoTrace ==
    (reserve' # reserve /\ (reserve'.fileType \notin AllowedFileTypes
                              \/ reserve'.fileSize > 2 * 1024 * 1024)) =>
        /\ reserve'.status = 400
        /\ reserve'.signedUrl = <<>> /\ reserve'.fileId = 0
        /\ UNCHANGED <<files, nextId>>

LoadedTypesAllowed ==
    /\ \A f \in DOMAIN files : files[f].mimeType \in AllowedFileTypes
    /\ \A j \in JobIds : jobs[j].mimeType # "" => jobs[j].mimeType \in AllowedFileTypes

CreatedVisibility ==
    (reserve' # reserve /\ reserve'.status = 200) =>
        /\ reserve'.fileId \in DOMAIN files' \ DOMAIN files
        /\ files'[reserve'.fileId].isPublic =
              (reserve'.isPublic /\ RoleOf(reserve'.user) \in {"ADMIN", "CONTRIBUTOR"})
        /\ RoleOf(reserve'.user) = "USER" => ~ files'[reserve'.fileId].isPublic

VisibilityKept ==
    \A f \in DOMAIN files \cap DOMAIN files' : files'[f].isPublic = files[f].isPublic

C12_PublicIsPrivileged == [][CreatedVisibility /\ VisibilityKept]_vars

\* a USER asked for a public File and got a private one, which has been
\* ingested, beside a public File that a finished sweep has left in place
C12_Witness ==
    /\ reserve.status = 200 /\ reserve.isPublic /\ RoleOf(reserve.user) = "USER"
    /\ Exists(reserve.fileId)
    /\ ~ files[reserve.fileId].isPublic
    /\ files[reserve.fileId].status = "COMPLETED"
    /\ \E f \in DOMAIN files : files[f].isPublic
    /\ sweep.pc = "idle" /\ sweep.cleanedCount >= 0

\* C13: cleanup sweep selection.  A run of processFileCleanupJob selects
\* exactly the rows that are PENDING or FAILED and more than 24 hours old,
\* every row it deletes is such a row when it is deleted (none younger, none
\* PROCESSING, COMPLETED or DUPLICATE), and the cleanedCount it returns is the
\* number of rows it deleted.
IsAbandoned(f) == files[f].status \in {"PENDING", "FAILED"} /\ f <= aged

SweepSelectsAbandoned ==
    (sweep.pc = "idle" /\ sweep' # sweep) =>
        /\ {sweep'.todo[i] : i \in DOMAIN sweep'.todo} = {f \in DOMAIN files : IsAbandoned(f)}
        /\ sweep'.todo = <<>> => sweep'.cleanedCount = 0

SweepDeletesAbandoned ==
    (sweep.pc = "deleteRow" /\ sweep' # sweep) =>
        /\ \A f \in DOMAIN files \ DOMAIN files' : IsAbandoned(f)
        /\ LET n == sweep.deletedCount + Cardinality(DOMAIN files \ DOMAIN files')
           IN  IF sweep'.pc = "idle" THEN sweep'.cleanedCount = n
               ELSE sweep'.deletedCount = n

C13_SweepSelection == [][SweepSelectsAbandoned /\ SweepDeletesAbandoned]_vars

\* a row stored as DELIVERED, once the call that stored it has done its emit,
\* was emitted to a connected client of its user
DeliveredWasEmitted ==
    \A n \in DOMAIN notifications :
        (notifications[n].status = "DELIVERED" /\ ~EmitInFlight(n)) => n \in emitted

\* a row persisted before its user connected is no longer PENDING once the
\* handler of that connection has finished
NoPendingAcrossConnection ==
    \A n \in DOMAIN notifications, s \in Sockets :
        (/\ sockets[s].user = notifications[n].userId
         /\ n <= sockets[s].since
         /\ sockets[s].pc = "done")
        => notifications[n].status # "PENDING"

\* C16: guaranteed notification delivery.  Under any interleaving of
\* createNotificationsForUserIds with the user's connects and disconnects, no
\* notification is stored as DELIVERED without having been emitted to a
\* connected client of its user (as new_notification or, on the next
\* connection, as pending_notifications), and none stays PENDING across a
\* later connection of its user.
C16_GuaranteedDelivery == DeliveredWasEmitted /\ NoPendingAcrossConnection

Rank(status) == CASE status = "PENDING" -> 0 [] status = "DELIVERED" -> 1 [] OTHER -> 2

\* C17: notification status lifecycle.  No step of notification creation, of
\* a connection handler or of markAsRead moves a notification's status
\* backwards along PENDING -> DELIVERED -> READ; in particular READ is final.
C17_StatusLifecycle ==
    [][\A n \in DOMAIN notifications :
          Rank(notifications'[n].status) >= Rank(notifications[n].status)]_vars

\* the step job j takes, if this step is one of job j
StepOf(j, pc) == At(j, pc) /\ jobs'[j] # jobs[j]

\* the run of job j ends here and the queue marks the job completed
ReturnsOk(j) == jobs'[j].state = "completed" /\ jobs'[j].result = "ok"

\* this step adds no chunk row
NoChunkWritten == \A d \in DOMAIN docs' : CopiesIn(d, docs') <= CopiesIn(d, docs)

\* C18: a missing object is cleaned up, not failed.  When the GET of the
\* File's object reports it absent, the job goes on to delete the File row:
\* after that step the row is gone, no chunk row was written, no File is newly
\* FAILED and the run has returned successfully (no retry); a GET that fails
\* with any other error goes to the catch block, which re-raises it.
C18_MissingObjectCleanedUp ==
    [][\A j \in JobIds :
          /\ (StepOf(j, "download") /\ jobs[j].fileId \notin DOMAIN store /\ faults' = faults)
                => jobs'[j].pc = "deleteReservation" /\ UNCHANGED <<files, docs>>
          /\ StepOf(j, "deleteReservation")
                => /\ ~ (jobs[j].fileId \in DOMAIN files')
                   /\ NoChunkWritten
                   /\ \A f \in DOMAIN files' : files'[f] = files[f]
                   /\ ReturnsOk(j)
          /\ (StepOf(j, "download") /\ faults' # faults) => jobs'[j].pc = "catch"
          /\ StepOf(j, "catch") => jobs'[j].result = "error"]_vars

\* C19: best-effort blob deletion on the duplicate path.  When the duplicate
\* check has found a match, the job goes on to mark the File DUPLICATE whether
\* or not the object-store delete succeeds, and that step stores status
\* DUPLICATE with the computed hash and returns successfully; a failed delete
\* is neither raised to the queue nor turned into FAILED.
C19_BestEffortDelete ==
    [][\A j \in JobIds :
          /\ StepOf(j, "deleteObject")
                => jobs'[j].pc = "markDuplicate" /\ UNCHANGED files
          /\ StepOf(j, "markDuplicate")
                => /\ jobs[j].fileId \in DOMAIN files'
                   /\ files'[jobs[j].fileId].status = "DUPLICATE"
                   /\ files'[jobs[j].fileId].fileHash = jobs[j].hash
                   /\ ReturnsOk(j)]_vars

\* C20: empty extraction is a terminal business failure.  When the extracted
\* text is empty or whitespace-only, the job makes no embedding call and goes
\* on to the FAILED update; that step sets the File's status to FAILED, writes
\* no chunk row and returns successfully, so the queue does not retry.
C20_EmptyExtraction ==
    [][\A j \in JobIds :
          /\ (StepOf(j, "extract") /\ TrimIsEmpty(jobs[j].bytes) /\ faults' = faults)
                => jobs'[j].pc = "markEmpty" /\ UNCHANGED <<files, docs>>
          /\ StepOf(j, "markEmpty")
                => /\ jobs[j].fileId \in DOMAIN files'
                   /\ files'[jobs[j].fileId].status = "FAILED"
                   /\ UNCHANGED docs
                   /\ ReturnsOk(j)]_vars

\* C21: failure signalling.  A run of processJob that does not return
\* successfully ends in the catch block; a remote call that fails sends the
\* run there with its error; the catch block sets the File's status to FAILED
\* when the row still exists and raises to the queue the very error it caught,
\* also when the FAILED update itself fails; the queue then applies its retry
\* policy.
C21_FailureSignalling ==
    [][\A j \in JobIds :
          /\ (jobs[j].state = "active" /\ jobs'[j].state # "active" /\ jobs'[j].result # "ok")
                => jobs[j].pc = "catch"
          /\ (jobs[j].state = "active" /\ jobs'[j] # jobs[j] /\ faults' # faults)
                => jobs'[j].pc = "catch" /\ jobs'[j].error \in {"S3", "Embed", "Extract"}
          /\ StepOf(j, "catch")
                => /\ jobs[j].error # ""
                   /\ jobs'[j].result = "error"
                   /\ jobs'[j].thrown = jobs[j].error
                   /\ jobs'[j].state = AfterThrow(jobs[j])
                   /\ Exists(jobs[j].fileId)
                         => /\ Exists(jobs[j].fileId)'
                            /\ files'[jobs[j].fileId].status = "FAILED"]_vars

\* a job has raised 'File record not found' although the FAILED update of its
\* catch block found no row; the other job of that File failed once on the
\* object store and then deleted the reservation
C21_Witness ==
    /\ 2 \in JobIds
    /\ jobs[2].thrown = "File record not found"
    /\ ~ Exists(jobs[2].fileId)
    /\ jobs[1].attemptsMade = 2
    /\ jobs[1].result = "ok"
    /\ faults = 1

\* the steps of processJob after the duplicate check has found nothing
PastCheck == {"updateHash", "extract", "embed", "markCompleted"}

\* a COMPLETED File of the same owner with the same hash, other than the job's
CompletedCopy(job) ==
    \E g \in DOMAIN files :
        /\ files[g].userId = job.userId
        /\ files[g].fileHash = job.hash
        /\ files[g].status = "COMPLETED"
        /\ g # job.fileId

\* C22: accepted dedup race.  While the job of a byte-identical file of the
\* same user is past its duplicate check and no COMPLETED copy exists yet,
\* the duplicate check of a concurrent job finds nothing either (the check
\* and the COMPLETED write are not atomic); a job past its check marks its
\* File COMPLETED, never DUPLICATE.  So there is an interleaving in which
\* both Files end COMPLETED.
C22_DedupRace ==
    [][\A j1 \in JobIds, j2 \in JobIds :
          /\ (/\ StepOf(j2, "findFirst")
              /\ jobs[j1].state = "active" /\ jobs[j1].pc \in PastCheck
              /\ jobs[j1].fileId # jobs[j2].fileId
              /\ jobs[j1].userId = jobs[j2].userId
              /\ jobs[j1].hash = jobs[j2].hash
              /\ ~ CompletedCopy(jobs[j2]))
                => jobs'[j2].pc = "updateHash"
          /\ (jobs[j1].state = "active" /\ jobs[j1].pc \in PastCheck /\ jobs'[j1] # jobs[j1])
                => /\ jobs'[j1].state = "active" => jobs'[j1].pc \in PastCheck
                   /\ Exists(jobs[j1].fileId) => files'[jobs[j1].fileId].status # "DUPLICATE"
                   /\ ReturnsOk(j1) => files'[jobs[j1].fileId].status = "COMPLETED"]_vars

\* two byte-identical files of one user are both COMPLETED with the same
\* hash, each after a single successful run of its job, both objects stored
C22_Witness ==
    /\ {1, 2} \subseteq DOMAIN files
    /\ {1, 2} \subseteq JobIds
    /\ {1, 2} \subseteq DOMAIN puts
    /\ files[1].userId = files[2].userId
    /\ puts[1] = puts[2]
    /\ files[1].fileHash = files[2].fileHash
    /\ files[1].status = "COMPLETED" /\ files[2].status = "COMPLETED"
    /\ RanOnce(1) /\ RanOnce(2)
    /\ {1, 2} \subseteq DOMAIN store

\* a File becomes DUPLICATE only in the step of a job of that File that
\* follows a duplicate check which found a COMPLETED copy of the same owner
MarkedOnlyAfterMatch ==
    /\ \A j \in JobIds :
          (StepOf(j, "findFirst") /\ jobs'[j].pc = "deleteObject") => CompletedCopy(jobs[j])
    /\ \A f \in DOMAIN files' :
          (files'[f].status = "DUPLICATE" /\ files[f].status # "DUPLICATE")
             => \E j \in JobIds : StepOf(j, "markDuplicate") /\ jobs[j].fileId = f

\* a step of a job changes no File and no stored object other than its own
TouchesOnlyOwnFile ==
    \A j \in JobIds :
        (jobs[j].state = "active" /\ jobs'[j] # jobs[j])
           => /\ \A g \in DOMAIN files \ {jobs[j].fileId} :
                    g \in DOMAIN files' /\ files'[g] = files[g]
              /\ \A g \in DOMAIN store \ {jobs[j].fileId} :
                    g \in DOMAIN store' /\ store'[g] = store[g]

\* a File whose job has run, whose text is not empty and whose owner has no
\* other File with the same bytes is COMPLETED, whatever other users uploaded
SoleCopyCompleted ==
    \A f \in DOMAIN files :
        (/\ \E j \in JobIds : jobs[j].fileId = f
         /\ \A j \in JobIds : jobs[j].fileId = f => RanOnce(j)
         /\ f \in DOMAIN store /\ ~ TrimIsEmpty(store[f])
         /\ \A g \in DOMAIN files \ {f} :
               files[g].userId = files[f].userId => (g \notin DOMAIN puts \/ puts[g] # puts[f]))
        => files[f].status = "COMPLETED"

\* C23: dedup is scoped to one owner.  A File is marked DUPLICATE only if its
\* duplicate check found a different COMPLETED File of the same owner with the
\* same hash; byte-identical files of different users are both ingested to
\* COMPLETED; a job never changes a File or deletes an object other than its own.
C23_DedupPerOwner ==
    [][MarkedOnlyAfterMatch /\ TouchesOnlyOwnFile]_vars /\ []SoleCopyCompleted

\* two users hold the same bytes: both Files are COMPLETED with the same hash
\* and both objects are still stored
C23_Witness ==
    /\ {1, 2} \subseteq DOMAIN files
    /\ files[1].userId # files[2].userId
    /\ files[1].fileHash = files[2].fileHash
    /\ files[1].fileHash # <<>>
    /\ files[1].status = "COMPLETED" /\ files[2].status = "COMPLETED"
    /\ {1, 2} \subseteq DOMAIN store

\* the chunk row the code writes for chunk i of the text of File f
RowOfChunk(f, bytes, i) ==
    [fileId |-> f, userId |-> files[f].userId, content |-> <<bytes, i>>,
     embedding |-> EmbedChunk(bytes, i),
     metadata |-> [originalName |-> OriginalName(f)]]

\* C24: indexed means fully written.  A File's status becomes COMPLETED only
\* in the last step of a run of its job, when for every chunk of its text a
\* chunk row with the chunk's text, the File's id, its owner, its display name
\* in the metadata and the embedding returned for that chunk is in the
\* Document table; that step writes nothing else and the run returns.
C24_IndexedMeansWritten ==
    [][\A f \in DOMAIN files' :
          (f \in DOMAIN files /\ files'[f].status = "COMPLETED" /\ files[f].status # "COMPLETED")
             => \E j \in JobIds :
                   /\ StepOf(j, "markCompleted")
                   /\ jobs[j].fileId = f
                   /\ NumChunks(jobs[j].bytes) > 0
                   /\ \A i \in 1..NumChunks(jobs[j].bytes) :
                         BagIn(RowOfChunk(f, jobs[j].bytes, i), docs)
                   /\ UNCHANGED <<docs, store>>
                   /\ ReturnsOk(j)]_vars

\* a File is COMPLETED with all the chunk rows of its text, after a run whose
\* embedding call failed once and was retried
C24_Witness ==
    \E f \in DOMAIN files :
        /\ files[f].status = "COMPLETED"
        /\ f \in DOMAIN store
        /\ \A i \in 1..NumChunks(store[f]) : BagIn(RowOfChunk(f, store[f], i), docs)
        /\ \E j \in JobIds :
              jobs[j].fileId = f /\ jobs[j].attemptsMade = 2 /\ jobs[j].result = "ok"
        /\ faults = 1

\* every chunk row carries the vector the embedding call returned for its text
RowsCarryReturnedVector ==
    \A d \in DOMAIN docs : d.embedding = EmbedChunk(d.content[1], d.content[2])

\* the similarity query runs only with the vector returned for the search query
QueryUsesReturnedVector ==
    chat.pc \in {"query", "links", "generate"}
       => "embed" \in chat.calls /\ chat.embedding = EmbedQuery(chat.searchQuery)

\* C25: no substitute vector on embedding failure.  When the embedding call of
\* a chunk fails, no chunk row is written and the run goes to the catch block,
\* which sets FAILED and re-raises the error; when the embedding call of chat
\* fails, the request ends with that error before any similarity query or
\* answer generation; no chunk row and no similarity query ever uses a vector
\* the embedding call did not return.
C25_NoSubstituteVector ==
    /\ [][/\ \A j \in JobIds :
                /\ (StepOf(j, "embed") /\ faults' # faults)
                      => /\ UNCHANGED docs
                         /\ jobs'[j].pc = "catch"
                         /\ jobs'[j].error = "Embed"
                /\ (StepOf(j, "catch") /\ jobs[j].error = "Embed")
                      => /\ UNCHANGED docs
                         /\ jobs'[j].result = "error"
                         /\ jobs'[j].thrown = "Embed"
                         /\ Exists(jobs[j].fileId) => files'[jobs[j].fileId].status = "FAILED"
          /\ (chat.pc = "embed" /\ chat' # chat /\ faults' # faults)
                => /\ chat'.pc = "done"
                   /\ chat'.outcome = "error"
                   /\ chat'.documents = <<>>
                   /\ "generate" \notin chat'.calls
          /\ (chat.pc = "query" /\ chat' # chat)
                => chat'.documents = SimilarityQuery(chat.user, EmbedQuery(chat.searchQuery))]_vars
    /\ [](RowsCarryReturnedVector /\ QueryUsesReturnedVector)

\* the embedding call failed for the second chunk of a File: the File is
\* FAILED with one chunk row, the job has raised the error; the user's chat
\* request then ran its similarity query and was answered
C25_Witness ==
    \E j \in JobIds :
        /\ jobs[j].thrown = "Embed"
        /\ jobs[j].state = "waiting"
        /\ Exists(jobs[j].fileId)
        /\ files[jobs[j].fileId].status = "FAILED"
        /\ BagCardinality(RowsOf(jobs[j].fileId)) = 1
        /\ chat.pc = "done" /\ chat.outcome = "stream"

\* content of the last message of the request being served
LastContent == chat.messages[Len(chat.messages)].content

\* the request is past the choice of its search query
QueryChosen == chat.pc \in {"embed", "query", "links", "generate"}

\* a one-message request goes straight to the embedding, a longer one to the rewriter
StartChoosesByLength ==
    chat.pc \in {"idle", "done"} /\ chat'.pc \notin {"idle", "done"}
        => /\ chat'.searchQuery = chat'.messages[Len(chat'.messages)].content
           /\ chat'.pc = IF Len(chat'.messages) = 1 THEN "embed" ELSE "rewrite"
           /\ "rewrite" \notin chat'.calls

\* the rewrite call ends in the embedding step with the returned text, or, thrown, with the last content
RewriteNeverRejects ==
    chat.pc = "rewrite" /\ chat' # chat
        => /\ chat'.pc = "embed"
           /\ chat'.outcome = ""
           /\ faults' # faults => chat'.searchQuery = LastContent
           /\ faults' = faults => chat'.searchQuery \in RewriteOutputs

\* the embedding call is made on the chosen query
EmbedsSearchQuery ==
    chat.pc = "embed" /\ chat'.pc = "query"
        => /\ chat'.embedding = EmbedQuery(chat.searchQuery)
           /\ chat'.searchQuery = chat.searchQuery

\* a query other than the last content comes from a rewrite call on a longer conversation
OnlyRewriteChanges ==
    QueryChosen =>
        /\ Len(chat.messages) = 1 => chat.searchQuery = LastContent /\ "rewrite" \notin chat.calls
        /\ chat.searchQuery # LastContent => Len(chat.messages) > 1 /\ "rewrite" \in chat.calls

\* C26: search query selection.  The query that chat embeds is the last
\* message's content when the conversation has one message, and then no
\* rewrite call is made, or when the rewrite call throws; it is the text the
\* rewriter returned only when there are prior turns and the call succeeds;
\* a thrown rewrite call never ends the request.
C26_SearchQuerySelection ==
    /\ [][StartChoosesByLength /\ RewriteNeverRejects /\ EmbedsSearchQuery]_vars
    /\ []OnlyRewriteChanges

\* a request with prior turns whose rewrite call threw has been answered from the last content
C26_Witness ==
    /\ chat.outcome = "stream"
    /\ Len(chat.messages) > 1
    /\ "rewrite" \in chat.calls
    /\ faults > 0
    /\ chat.searchQuery = LastContent
    /\ chat.embedding = EmbedQuery(LastContent)

\* positions of the request's documents whose link is the sentinel
Unavailable(links) == {i \in DOMAIN links : links[i] = UnavailableLink}

\* the link step gives every retrieved document, in place, its own link or the sentinel
LinksPerDocument ==
    chat.pc = "links" /\ chat' # chat
        => /\ chat'.pc = "generate"
           /\ chat'.outcome = ""
           /\ chat'.documents = chat.documents
           /\ DOMAIN chat'.links = DOMAIN chat.documents
           /\ \A i \in DOMAIN chat.documents :
                 /\ chat'.links[i] \in {UnavailableLink, <<"url", chat.documents[i].fileKey>>}
                 /\ ~HasKey(chat.documents[i]) => chat'.links[i] = UnavailableLink
           /\ Cardinality({i \in Unavailable(chat'.links) : HasKey(chat.documents[i])})
                 = faults' - faults

\* the documents of the request are the rows of the query, in its order
KeepsRetrievalOrder ==
    chat.pc = "query" /\ chat' # chat
        => chat'.documents = SimilarityQuery(chat.user, chat.embedding)

\* the generation is given a link for every document, and answers
GeneratesFromAll ==
    chat.pc = "generate" /\ chat' # chat
        => /\ DOMAIN chat.links = DOMAIN chat.documents
           /\ chat'.outcome = "stream"

\* C27: citation link degradation.  For each retrieved chunk whose download
\* URL cannot be issued, or whose File row has no storage key, the link is
\* 'unavailable'; every other chunk keeps its own link, and the request goes
\* on to the generation with all retrieved chunks in their retrieval order.
C27_LinkDegradation ==
    [][KeepsRetrievalOrder /\ LinksPerDocument /\ GeneratesFromAll]_vars

\* a request about to generate holds one chunk without link and one with its own
C27_Witness ==
    /\ chat.pc = "generate"
    /\ Unavailable(chat.links) # {}
    /\ \E i \in DOMAIN chat.links : chat.links[i] = <<"url", chat.documents[i].fileKey>>

\* C28: duplicate files carry no searchable content.  In every reachable
\* state, a File whose status is DUPLICATE has no chunk rows.
C28_DuplicateHasNoChunks ==
    \A f \in DOMAIN files :
        files[f].status = "DUPLICATE" => DOMAIN RowsOf(f) = {}

\* statuses an ingestion job gives a File it has picked up
Ingested == {"PROCESSING", "COMPLETED", "DUPLICATE"}

\* the sweep deletes no row that a job has taken to an ingested status
SweepSparesIngestedRow ==
    (sweep.pc = "deleteRow" /\ sweep' # sweep) =>
        \A f \in DOMAIN files \ DOMAIN files' :
            files[f].status \notin Ingested

\* nor the stored object of such a row
SweepSparesIngestedObject ==
    (sweep.pc = "deleteObject" /\ sweep' # sweep /\ store' # store) =>
        LET f == Head(sweep.todo)
        IN  Exists(f) => files[f].status \notin Ingested

\* C29: sweep versus ingestion.  Run concurrently with ingestion jobs, the
\* cleanup sweep never deletes a File row or its stored object while the
\* row's status is PROCESSING, COMPLETED or DUPLICATE, and it does not delete
\* a File that a job has picked up since the sweep selected it.
C29_SweepVersusIngestion ==
    [][SweepSparesIngestedRow /\ SweepSparesIngestedObject]_vars

\* an ingestion job was enqueued for the File
Enqueued(f) == \E j \in JobIds : jobs[j].fileId = f

\* the File is gone or its status is one a finished ingestion leaves
AtRest(f) == Exists(f) => files[f].status \in {"COMPLETED", "DUPLICATE", "FAILED"}

\* C30: ingestion terminates in a settled state.  Under fair scheduling, with
\* every remote call returning success or an error, every File whose
\* ingestion job was enqueued is eventually COMPLETED, DUPLICATE, FAILED or
\* deleted, after at most 3 attempts of the job; no File stays PROCESSING
\* forever.
C30_IngestionSettles ==
    /\ \A f \in FileIds : Enqueued(f) ~> AtRest(f)
    /\ [](\A j \in JobIds : jobs[j].attemptsMade <= Attempts)

====
